---- MODULE Spec2Model ----
(***************************************************************************)
(* A model of the fishlet target generator (target.cpp): main() as a       *)
(* sequence of steps over the option variables, the derived geometry, the  *)
(* cairo collaborators (PDF surface, canvas context, koi.png image) and    *)
(* the process exit.                                                       *)
(*                                                                         *)
(* C strings are tuples of one-character strings.  A double is an exact    *)
(* rational <<n, d>> with d > 0 (floating-point rounding is not modelled); *)
(* an int is an integer.  The cairo library and the PNG loader are the     *)
(* environment: each of their operations may succeed or fail.              *)
(***************************************************************************)
EXTENDS Integers, Sequences, FiniteSets, TLC

\* ------------------------------------------------------------------ bounds
MaxArgs == 2        \* options on a command line
StackLimit == 24    \* nested gcd() calls the stack holds before overflow

\* --------------------------------------------------------------- constants
DEFAULT_GEOM == <<"8", ".", "5", "x", "1", "1">>
DEFAULT_MARGIN == <<25, 100>>
DEFAULT_FNAME == "target.pdf"
DEFAULT_RINGS == 8
DEFAULT_ORINGS == 2
DEFAULT_IRINGS == 3
DEFAULT_LINEW == <<5, 100>>
FISH_IMAGE == "koi.png"

\* ----------------------------------------------------- double arithmetic
RSub(a, b) == <<a[1] * b[2] - b[1] * a[2], a[2] * b[2]>>
RLess(a, b) == a[1] * b[2] < b[1] * a[2]
RHalf(a) == <<a[1], 2 * a[2]>>
\* conversion of a double to int: truncation toward zero
RTrunc(a) == IF a[1] >= 0 THEN a[1] \div a[2] ELSE -((-a[1]) \div a[2])
\* an int converted to double
RInt(i) == <<i, 1>>

inch_pt(i) == <<i[1] * 72, i[2]>>
pt_inch(p) == <<p[1], p[2] * 72>>

\* ------------------------------------------------------------ libc parsing
Digits == <<"0", "1", "2", "3", "4", "5", "6", "7", "8", "9">>
IsDigit(c) == \E d \in 1..10 : Digits[d] = c
DigitVal(c) == (CHOOSE d \in 1..10 : Digits[d] = c) - 1

RECURSIVE DigitRun(_, _)
\* number of consecutive digits of s from position i on
DigitRun(s, i) ==
    IF i <= Len(s) /\ IsDigit(s[i]) THEN 1 + DigitRun(s, i + 1) ELSE 0

RECURSIVE DigitsVal(_, _, _)
\* decimal value of the n digits of s that start at position i
DigitsVal(s, i, n) ==
    IF n = 0 THEN 0
    ELSE 10 * DigitsVal(s, i, n - 1) + DigitVal(s[i + n - 1])

RECURSIVE Pow10(_)
Pow10(n) == IF n = 0 THEN 1 ELSE 10 * Pow10(n - 1)

atoi(s) ==
    LET neg == Len(s) > 0 /\ s[1] = "-"
        st == IF neg THEN 2 ELSE 1
        v == DigitsVal(s, st, DigitRun(s, st))
    IN IF neg THEN -v ELSE v

atof(s) ==
    LET neg == Len(s) > 0 /\ s[1] = "-"
        st == IF neg THEN 2 ELSE 1
        ni == DigitRun(s, st)
        dot == st + ni
        nf == IF dot <= Len(s) /\ s[dot] = "." THEN DigitRun(s, dot + 1) ELSE 0
        v == DigitsVal(s, st, ni) * Pow10(nf) + DigitsVal(s, dot + 1, nf)
    IN <<IF neg THEN -v ELSE v, Pow10(nf)>>

\* position of the first c in s, 0 for NULL
strchr(s, c) ==
    IF \E i \in 1..Len(s) : s[i] = c
    THEN CHOOSE i \in 1..Len(s) : s[i] = c /\ \A j \in 1..(i - 1) : s[j] # c
    ELSE 0

\* the string starting at position i of s (s + i - 1 in C)
StrFrom(s, i) == SubSeq(s, i, Len(s))

\* ------------------------------------------------------------ command line
GeomArgs == { <<"1", "0">>,
              <<"1", "7", ".", "5", "x", "1", "7", ".", "5">>,
              <<"1", "3", ".", "3", "x", "1", "3", ".", "3">> }
RingArgs == { <<"0">>, <<"3">>, <<"-", "1">> }
Opt(f, a) == [flag |-> f, arg |-> a]
Options ==
    { Opt("s", a) : a \in GeomArgs } \cup
    { Opt("r", a) : a \in RingArgs } \cup
    { Opt("m", <<"0">>), Opt("l", <<"0">>), Opt("o", <<"out.pdf">>),
      Opt("I", <<"1">>), Opt("O", <<"9">>), Opt("b", <<>>), Opt("?", <<>>) }
CmdLines == UNION { [1..n -> Options] : n \in 0..MaxArgs }

VARIABLES
    cmdline,      \* argv after the program name, as getopt will return it
    optind,       \* number of options getopt has returned
    pc,           \* position of main(); it stays where the process exits
    opt_geom, opt_margin, opt_fname, opt_rings, opt_irings, opt_orings,
    opt_linew, opt_bg,
    width, height, margin, linew, radius,
    rs, num, ga, gb, depth, g, caption,
    cr_status,    \* cairo_status(cr): 0 or an error, which sticks
    res,          \* per external resource: times acquired, times released
    surface_fname,\* path the PDF surface is bound to
    log,          \* cairo operations issued on the canvas and its surface
    failed_at,    \* Len(log) when a collaborator first failed, -1 if none
    err,          \* what was written to standard error
    exit_status   \* -1 while running

vars == <<cmdline, optind, pc, opt_geom, opt_margin, opt_fname, opt_rings,
          opt_irings, opt_orings, opt_linew, opt_bg, width, height, margin,
          linew, radius, rs, num, ga, gb, depth, g, caption, cr_status, res,
          surface_fname, log, failed_at, err, exit_status>>

optvars == <<opt_geom, opt_margin, opt_fname, opt_rings, opt_irings,
             opt_orings, opt_linew, opt_bg>>
geomvars == <<width, height, margin, linew, radius>>
capvars == <<rs, num, ga, gb, depth, g, caption>>
cairovars == <<cr_status, res, surface_fname, log, failed_at>>

Resources == {"surface", "cr", "im", "im_cr"}

Init ==
    /\ cmdline \in CmdLines
    /\ optind = 0
    /\ pc = "getopt"
    /\ opt_geom = DEFAULT_GEOM
    /\ opt_margin = DEFAULT_MARGIN
    /\ opt_fname = DEFAULT_FNAME
    /\ opt_rings = DEFAULT_RINGS
    /\ opt_irings = DEFAULT_IRINGS
    /\ opt_orings = DEFAULT_ORINGS
    /\ opt_linew = DEFAULT_LINEW
    /\ opt_bg \in BOOLEAN          \* declared without an initializer
    /\ width = <<0, 1>> /\ height = <<0, 1>> /\ margin = <<0, 1>>
    /\ linew = <<0, 1>> /\ radius = 0
    /\ rs = <<0, 1>> /\ num = 0 /\ ga = 0 /\ gb = 0 /\ depth = 0 /\ g = 0
    /\ caption = <<>>
    /\ cr_status = 0
    /\ res = [r \in Resources |-> [acq |-> 0, rel |-> 0]]
    /\ surface_fname = ""
    /\ log = <<>>
    /\ failed_at = -1
    /\ err = <<>>
    /\ exit_status = -1

\* ------------------------------------------------------------------- exits
\* exit(code) after writing msg to stderr
Exit(msg, code) ==
    /\ err' = Append(err, msg)
    /\ exit_status' = code
    /\ UNCHANGED pc

\* main() is at position l and the process has not exited
At(l) == pc = l /\ exit_status = -1

\* usage(): the usage text on stderr, exit(2)
usage_status_1 == Exit("usage", 1)
usage == Exit("usage", 2)

\* check_status(cr): TRUE when the status makes it exit
check_status_inverted(status) == status = 0
check_status(status) == status # 0

\* int radius = (width < height ? width : height) / 2 - margin - linew / 2
outer_radius(w, h, m, l) ==
    IF RLess(w, h)
    THEN RTrunc(RSub(RSub(RHalf(w), m), RHalf(l)))
    ELSE RTrunc(RSub(RSub(RHalf(h), m), RHalf(l)))

\* ---------------------------------------------------------- option parsing
\* one iteration of the getopt loop
getopt ==
    /\ At("getopt")
    /\ optind < Len(cmdline)
    /\ optind' = optind + 1
    /\ LET o == cmdline[optind + 1] IN
        /\ opt_geom' = IF o.flag = "s" THEN o.arg ELSE opt_geom
        /\ opt_margin' = IF o.flag = "m" THEN atof(o.arg) ELSE opt_margin
        /\ opt_fname' = IF o.flag = "o" THEN o.arg[1] ELSE opt_fname
        /\ opt_rings' = IF o.flag = "r" THEN atoi(o.arg) ELSE opt_rings
        /\ opt_irings' = IF o.flag = "I" THEN atoi(o.arg) ELSE opt_irings
        /\ opt_orings' = IF o.flag = "O" THEN atoi(o.arg) ELSE opt_orings
        /\ opt_linew' = IF o.flag = "l" THEN atof(o.arg) ELSE opt_linew
        /\ opt_bg' = IF o.flag = "b" THEN TRUE ELSE opt_bg
        /\ IF o.flag \in {"s", "m", "o", "r", "I", "O", "l", "b"}
           THEN UNCHANGED <<pc, err, exit_status>>
           ELSE usage
    /\ UNCHANGED <<cmdline, geomvars, capvars, cairovars>>

\* the options are parsed: split the geometry at 'x', derive the page
\* geometry in points and the outer radius
geometry ==
    /\ At("getopt")
    /\ optind = Len(cmdline)
    /\ LET s == strchr(opt_geom, "x") IN
        IF s = 0
        THEN /\ usage
             /\ UNCHANGED geomvars
        ELSE LET w == inch_pt(atof(opt_geom))
                 h == inch_pt(atof(StrFrom(opt_geom, s + 1)))
                 m == inch_pt(opt_margin)
                 l == inch_pt(opt_linew)
             IN /\ width' = w
                /\ height' = h
                /\ margin' = m
                /\ linew' = l
                /\ radius' = outer_radius(w, h, m, l)
                /\ pc' = "create"
                /\ UNCHANGED <<err, exit_status>>
    /\ UNCHANGED <<cmdline, optind, optvars, capvars, cairovars>>

\* ------------------------------------------------------------ cairo calls
Op(o, k, c, r, t) == [op |-> o, k |-> k, color |-> c, r |-> r, text |-> t]
NoR == <<0, 1>>

DrawOps == {"fill", "stroke", "show_text", "fill_preserve", "paint"}

\* the calls ops are made on cr; fail says whether one of them puts cr
\* into an error state (which it never leaves)
Issue(ops, fail) ==
    /\ fail => ops # <<>>
    /\ log' = log \o ops
    /\ cr_status' = IF fail THEN 1 ELSE cr_status
    /\ failed_at' = IF fail /\ failed_at = -1 THEN Len(log') ELSE failed_at

Acquire(r) == [res EXCEPT ![r].acq = @ + 1]
Release(rr, r) == [rr EXCEPT ![r].rel = @ + 1]

\* cairo_pdf_surface_create, cairo_create, check_status
create ==
    /\ At("create")
    /\ \E sfail \in BOOLEAN, cfail \in BOOLEAN :
        LET bad == sfail \/ cfail
            r1 == IF sfail THEN res ELSE Acquire("surface")
        IN /\ res' = IF bad THEN r1 ELSE [r1 EXCEPT !["cr"].acq = @ + 1]
           /\ surface_fname' = IF sfail THEN surface_fname ELSE opt_fname
           /\ log' = log \o << Op("pdf_surface_create", 0, "", NoR, opt_fname),
                              Op("create", 0, "", NoR, "") >>
           /\ cr_status' = IF bad THEN 1 ELSE 0
           /\ failed_at' = IF bad THEN Len(log') ELSE failed_at
           /\ IF check_status(cr_status')
              THEN Exit("Operation failed", 1)
              ELSE /\ pc' = "background"
                   /\ UNCHANGED <<err, exit_status>>
    /\ UNCHANGED <<cmdline, optind, optvars, geomvars, capvars>>

\* the background rectangle, then cairo_set_line_width
background ==
    /\ At("background")
    /\ \E fail \in BOOLEAN :
        Issue(IF opt_bg THEN << Op("fill", 0, "background", NoR, "") >>
                        ELSE <<>>, fail)
    /\ pc' = "disks"
    /\ UNCHANGED <<cmdline, optind, optvars, geomvars, capvars, res,
                   surface_fname, err, exit_status>>

ring_spacing(rad, rings) ==
    LET d == rad[2] * (2 * rings + 1)
    IN IF d < 0 THEN <<-(2 * rad[1]), -d>> ELSE <<2 * rad[1], d>>

ring_radius(rad, rings, ring) ==
    LET sp == ring_spacing(rad, rings)
    IN <<sp[1] + 2 * ring * sp[1], 2 * sp[2]>>

Arc(o, ring, c) ==
    Op(o, ring, c, ring_radius(RInt(radius), opt_rings, ring), "")

\* the blue, white, red and bullseye disks
disks ==
    /\ At("disks")
    /\ \E fail \in BOOLEAN :
        Issue(<< Arc("fill", opt_rings, "blue"),
                 Arc("fill", opt_rings - opt_orings, "white"),
                 Arc("fill", opt_irings, "red"),
                 Arc("fill", 0, "white") >>, fail)
    /\ pc' = "outlines"
    /\ UNCHANGED <<cmdline, optind, optvars, geomvars, capvars, res,
                   surface_fname, err, exit_status>>

outline_color(ring) ==
    IF (ring > 0 /\ ring < opt_irings) \/
       (ring > opt_rings - opt_orings /\ ring < opt_rings)
    THEN "white" ELSE "black"

\* for (ring = 0; ring <= opt_rings; ring++) stroke the ring
outlines ==
    /\ At("outlines")
    /\ \E fail \in BOOLEAN :
        Issue([i \in 1..(opt_rings + 1) |->
                  Arc("stroke", i - 1, outline_color(i - 1))], fail)
    /\ pc' = "labels"
    /\ UNCHANGED <<cmdline, optind, optvars, geomvars, capvars, res,
                   surface_fname, err, exit_status>>

label_color_exclusive(ring) ==
    IF ring < opt_irings \/ ring > opt_rings - opt_orings
    THEN "white" ELSE "black"
label_color(ring) ==
    IF ring <= opt_irings \/ ring > opt_rings - opt_orings
    THEN "white" ELSE "black"

\* for (ring = 1; ring <= opt_rings; ring++) the ring number, four times
labels ==
    /\ At("labels")
    /\ rs' = ring_spacing(RInt(radius), opt_rings)
    /\ \E fail \in BOOLEAN :
        Issue([i \in 1..(4 * opt_rings) |->
                  LET ring == ((i - 1) \div 4) + 1
                  IN Op("show_text", ring, label_color(ring), NoR, "number")],
              fail)
    /\ pc' = "eyes"
    /\ UNCHANGED <<cmdline, optind, optvars, geomvars, num, ga, gb, depth, g,
                   caption, res, surface_fname, err, exit_status>>

\* target_eye(), four times, on ring opt_rings - 1
eyes ==
    /\ At("eyes")
    /\ LET eye_ring == opt_rings - 1 IN
       \E fail \in BOOLEAN :
        Issue([i \in 1..8 |->
                  IF i % 2 = 1
                  THEN Op("fill_preserve", eye_ring, "white", NoR, "")
                  ELSE Op("stroke", eye_ring, "black", NoR, "")], fail)
    /\ pc' = "fish_new"
    /\ UNCHANGED <<cmdline, optind, optvars, geomvars, capvars, res,
                   surface_fname, err, exit_status>>

\* new fish: load koi.png, measure it through a scratch context
fish_new ==
    /\ At("fish_new")
    /\ \E loadfail \in BOOLEAN :
        IF loadfail
        THEN /\ Exit("Could not load image " \o FISH_IMAGE, 1)
             /\ failed_at' = IF failed_at = -1 THEN Len(log) ELSE failed_at
             /\ UNCHANGED res
        ELSE /\ res' = Release([Acquire("im") EXCEPT !["im_cr"].acq = @ + 1],
                               "im_cr")
             /\ pc' = "fish_put"
             /\ UNCHANGED <<failed_at, err, exit_status>>
    /\ UNCHANGED <<cmdline, optind, optvars, geomvars, capvars, cr_status,
                   surface_fname, log>>

\* f->put() at the four corners
fish_put ==
    /\ At("fish_put")
    /\ \E fail \in BOOLEAN :
        Issue([i \in 1..4 |-> Op("paint", 0, "", NoR, FISH_IMAGE)], fail)
    /\ pc' = "fish_delete"
    /\ UNCHANGED <<cmdline, optind, optvars, geomvars, capvars, res,
                   surface_fname, err, exit_status>>

\* delete f
fish_delete ==
    /\ At("fish_delete")
    /\ res' = Release(res, "im")
    /\ pc' = "caption"
    /\ UNCHANGED <<cmdline, optind, optvars, geomvars, capvars, cr_status,
                   surface_fname, log, failed_at, err, exit_status>>

den == 32

\* num = (int)(pt_inch(rs) * 32 + 0.5); the call gcd(num, den)
caption_num(sp) ==
    LET x == pt_inch(sp)
    IN RTrunc(<<2 * 32 * x[1] + x[2], 2 * x[2]>>)

caption_begin ==
    /\ At("caption")
    /\ num' = caption_num(rs)
    /\ ga' = num'
    /\ gb' = den
    /\ depth' = 1
    /\ pc' = "gcd"
    /\ UNCHANGED <<cmdline, optind, optvars, geomvars, rs, g, caption,
                   cairovars, err, exit_status>>

\* C integer division and remainder: the quotient truncates toward zero
CDiv(a, b) ==
    LET q == (IF a < 0 THEN -a ELSE a) \div (IF b < 0 THEN -b ELSE b)
    IN IF (a < 0) = (b < 0) THEN q ELSE -q
CRem(a, b) == a - b * CDiv(a, b)

\* the arguments of the call that gcd(a, b) makes when a # 0
gcd_next(a, b) == IF a < b THEN <<a, CRem(b, a)>> ELSE <<b, a>>

\* one activation of gcd(a, b): return b, or call gcd again; the calls
\* nest (none returns before the innermost does), and a call that does not
\* fit on the stack kills the process
gcd ==
    /\ At("gcd")
    /\ IF ga = 0
       THEN /\ g' = gb
            /\ depth' = 0
            /\ pc' = "caption_text"
            /\ UNCHANGED <<ga, gb, exit_status>>
       ELSE IF depth >= StackLimit
       THEN /\ exit_status' = 139
            /\ UNCHANGED <<pc, ga, gb, depth, g>>
       ELSE /\ ga' = gcd_next(ga, gb)[1]
            /\ gb' = gcd_next(ga, gb)[2]
            /\ depth' = depth + 1
            /\ UNCHANGED <<pc, g, exit_status>>
    /\ UNCHANGED <<cmdline, optind, optvars, geomvars, rs, num, caption,
                   cairovars, err>>

\* "Ring spacing num/g / den/g" and the three fixed strings
caption_format(n, gg) == <<CDiv(n, gg), CDiv(den, gg)>>

caption_text ==
    /\ At("caption_text")
    /\ caption' = caption_format(num, g)
    /\ \E fail \in BOOLEAN :
        Issue(<< Op("show_text", 0, "", NoR, "www.fishlet.com"),
                 Op("show_text", 0, "", NoR, "www.fishlet.com"),
                 Op("show_text", 0, "", NoR, "Ring spacing"),
                 Op("show_text", 0, "", NoR, "Copyright") >>, fail)
    /\ pc' = "show_page"
    /\ UNCHANGED <<cmdline, optind, optvars, geomvars, rs, num, ga, gb,
                   depth, g, res, surface_fname, err, exit_status>>

\* cairo_show_page, check_status
show_page_ops_after_destroy ==
    << Op("destroy", 0, "", NoR, ""), Op("show_page", 0, "", NoR, "") >>
show_page_ops == << Op("show_page", 0, "", NoR, "") >>

show_page ==
    /\ At("show_page")
    /\ \E fail \in BOOLEAN : Issue(show_page_ops, fail)
    /\ IF check_status(cr_status')
       THEN Exit("Operation failed", 1)
       ELSE /\ pc' = "destroy"
            /\ UNCHANGED <<err, exit_status>>
    /\ UNCHANGED <<cmdline, optind, optvars, geomvars, capvars, res,
                   surface_fname>>

\* cairo_destroy(cr), cairo_surface_destroy(surface), return 0; closing
\* the surface writes the file out and may fail, which nothing looks at
cleanup_ops ==
    << Op("destroy", 0, "", NoR, ""), Op("surface_destroy", 0, "", NoR, "") >>

destroy ==
    /\ At("destroy")
    /\ log' = log \o cleanup_ops
    /\ res' = Release(Release(res, "cr"), "surface")
    /\ \E closefail \in BOOLEAN :
        failed_at' = IF closefail /\ failed_at = -1 THEN Len(log')
                     ELSE failed_at
    /\ exit_status' = 0
    /\ pc' = "return"
    /\ UNCHANGED <<cmdline, optind, optvars, geomvars, capvars, cr_status,
                   surface_fname, err>>

Next ==
    \/ getopt
    \/ geometry
    \/ create
    \/ background
    \/ disks
    \/ outlines
    \/ labels
    \/ eyes
    \/ fish_new
    \/ fish_put
    \/ fish_delete
    \/ caption_begin
    \/ gcd
    \/ caption_text
    \/ show_page
    \/ destroy

Spec == Init /\ [][Next]_vars

\* =================================================================== claims
HasX(s) == \E i \in DOMAIN s : s[i] = "x"
FlagAt(f) == { i \in DOMAIN cmdline : cmdline[i].flag = f }
Given(f) == FlagAt(f) # {}
\* the argument of the last -f on the command line, else dflt
LastArg(f, dflt) ==
    IF Given(f)
    THEN cmdline[CHOOSE i \in FlagAt(f) : \A j \in FlagAt(f) : j <= i].arg
    ELSE dflt
Count(o) == Cardinality({ i \in DOMAIN log : log[i].op = o })
Texts(t) == Cardinality({ i \in DOMAIN log : log[i].text = t })
Exited == exit_status # -1
\* equality of two doubles as values
REq(a, b) == a[1] * b[2] = b[1] * a[2]
PcOrder == << "getopt", "create", "background", "disks", "outlines",
              "labels", "eyes", "fish_new", "fish_put", "fish_delete",
              "caption", "gcd", "caption_text", "show_page", "destroy",
              "return" >>
PcIndex(l) == CHOOSE i \in DOMAIN PcOrder : PcOrder[i] = l
\* main() has executed the step at position l
Past(l) == PcIndex(pc) > PcIndex(l)

\* C1: a command line whose -s argument has no 'x', or that has an
\* unrecognized flag, ends in the usage text on stderr and exit status 2,
\* and the PDF surface is never created on that run.
BadCmdLine == Given("?") \/ ~HasX(LastArg("s", DEFAULT_GEOM))
C1_UsageExit ==
    BadCmdLine =>
        /\ pc = "getopt"
        /\ res["surface"].acq = 0 /\ surface_fname = "" /\ log = <<>>
        /\ Exited => exit_status = 2 /\ err = <<"usage">>
C1_Witness ==
    /\ Exited /\ exit_status = 2
    /\ ~Given("?") /\ Given("s") /\ ~HasX(LastArg("s", DEFAULT_GEOM))

\* C2: once a collaborator has failed the process exits with status 1
\* without issuing another operation, and never returns 0.
C2_FailFast ==
    failed_at >= 0 =>
        /\ Len(log) = failed_at
        /\ exit_status \in {-1, 1}
        /\ Exited => err # <<>>

\* C3: the run without flags on which no collaborator fails goes through
\* every drawing phase, finalizes the page, releases the canvas and the
\* surface, and exits 0 with the output bound to target.pdf.
C3_DefaultRun ==
    (cmdline = <<>> /\ failed_at = -1 /\ Exited) =>
        /\ exit_status = 0
        /\ err = <<>>
        /\ surface_fname = "target.pdf"
        /\ REq(width, <<612, 1>>) /\ REq(height, <<792, 1>>)
        /\ REq(margin, <<18, 1>>) /\ REq(linew, <<36, 10>>)
        /\ opt_rings = 8 /\ opt_irings = 3 /\ opt_orings = 2
        /\ Count("fill") \in {4, 5}
        /\ Count("stroke") = 9 + 4
        /\ Texts("number") = 32
        /\ Count("fill_preserve") = 4
        /\ Count("paint") = 4
        /\ Count("show_text") = 32 + 4
        /\ Count("show_page") = 1
        /\ SubSeq(log, Len(log) - 2, Len(log)) =
              << Op("show_page", 0, "", NoR, ""), Op("destroy", 0, "", NoR, ""),
                 Op("surface_destroy", 0, "", NoR, "") >>
        /\ res["cr"] = [acq |-> 1, rel |-> 1]
        /\ res["surface"] = [acq |-> 1, rel |-> 1]
C3_Witness == cmdline = <<>> /\ failed_at = -1 /\ Exited

\* C4: the number of ring k, 1 <= k <= N, is drawn white exactly when
\* k <= inner_rings or k > N - outer_rings, black otherwise; every ring in
\* 1..N gets its number (four times).
LabelsOf(k) == { i \in DOMAIN log : log[i].text = "number" /\ log[i].k = k }
LabelsDone == Past("labels")
C4_LabelColor ==
    /\ \A i \in DOMAIN log : log[i].text = "number" =>
          /\ log[i].k \in 1..opt_rings
          /\ log[i].color =
                (IF log[i].k <= opt_irings \/
                    log[i].k > opt_rings - opt_orings
                 THEN "white" ELSE "black")
    /\ LabelsDone => \A k \in 1..opt_rings : Cardinality(LabelsOf(k)) = 4
    /\ (LabelsDone /\ opt_rings = 8 /\ opt_irings = 3 /\ opt_orings = 2) =>
          /\ \A i \in LabelsOf(3) \cup LabelsOf(7) : log[i].color = "white"
          /\ \A i \in LabelsOf(4) : log[i].color = "black"
C4_Witness ==
    /\ LabelsDone /\ opt_rings = 8 /\ opt_irings = 1 /\ opt_orings = 2
    /\ \E i \in LabelsOf(1) : log[i].color = "white"
    /\ \E i \in LabelsOf(2) : log[i].color = "black"
    /\ \E i \in LabelsOf(7) : log[i].color = "white"

\* C5: for a ring spacing p >= 0 the caption shows n/d with
\* n/d = round(p/72*32)/32 in lowest terms.
CaptionReached == Past("caption_text") \/ (pc = "gcd" /\ Exited)
Round32(p) == (2 * 32 * p[1] + 72 * p[2]) \div (2 * 72 * p[2])
LowestTerms(c, n0) ==
    /\ Len(c) = 2
    /\ c[2] \in 1..32 /\ 32 % c[2] = 0
    /\ c[1] * 32 = n0 * c[2]
    /\ \A q \in 2..32 : ~(c[1] % q = 0 /\ c[2] % q = 0)
C5_Caption ==
    (CaptionReached /\ rs[1] >= 0) =>
        /\ LowestTerms(caption, Round32(rs))
        /\ Texts("Ring spacing") = 1
        /\ REq(rs, <<54, 1>>) => caption = <<3, 4>>

\* C6: the page is finalized after all the drawing operations, the canvas
\* and the surface are destroyed only after that, and nothing is drawn
\* after the finalization or after the canvas or the surface is released.
Closers == {"show_page", "destroy", "surface_destroy"}
OpsAt(ops) == { i \in DOMAIN log : log[i].op \in ops }
C6_Order ==
    /\ \A i \in OpsAt(Closers) : \A j \in OpsAt(DrawOps) : j < i
    /\ \A j \in OpsAt({"destroy", "surface_destroy"}) :
          \E i \in OpsAt({"show_page"}) : i < j
    /\ Count("show_page") >= 1 =>
          /\ Count("fill") >= 4
          /\ Count("stroke") = (IF opt_rings >= 0 THEN opt_rings + 1 ELSE 0) + 4
          /\ Count("fill_preserve") = 4
          /\ Count("paint") = 4
          /\ Texts("number") = (IF opt_rings >= 0 THEN 4 * opt_rings ELSE 0)
          /\ Texts("Ring spacing") = 1
          /\ Texts("www.fishlet.com") = 2 /\ Texts("Copyright") = 1
C6_Witness ==
    /\ Exited /\ exit_status = 0
    /\ log[Len(log) - 2].op = "show_page"
    /\ log[Len(log) - 3].op = "show_text"

\* C7: on every exit each resource has been acquired at most once and
\* released exactly once.
C7_Resources ==
    Exited => \A r \in Resources :
                 /\ res[r].acq <= 1
                 /\ res[r].rel = res[r].acq

\* C8: the radius handed to the ring layout is exactly
\* min(width, height)/2 - margin - linewidth/2.
GeometryDone == Past("getopt")
C8_Radius ==
    GeometryDone =>
        REq(RInt(radius),
            RSub(RSub(RHalf(IF RLess(width, height) THEN width ELSE height),
                      margin), RHalf(linew)))

\* C9: every ring_radius(R, N, k) call of main has N >= 0 and 0 <= k <= N.
RingCalls == { i \in DOMAIN log :
                 /\ log[i].op \in {"fill", "stroke", "fill_preserve"}
                 /\ log[i].color # "background" }
C9_RingIndex ==
    \A i \in RingCalls : opt_rings >= 0 /\ log[i].k \in 0..opt_rings

\* C10: the background is filled if and only if -b was given.
BackgroundFills == { i \in DOMAIN log : log[i].color = "background" }
BackgroundDone == Past("background")
C10_Background ==
    /\ ~Given("b") => BackgroundFills = {}
    /\ (~Given("b") /\ BackgroundDone) => opt_bg = FALSE
    /\ (Given("b") /\ BackgroundDone) => Cardinality(BackgroundFills) = 1

\* C11: gcd(a, b) returns for all non-negative a and b, a == b > 0 as in
\* gcd(32, 32) included, and what it returns is their greatest common
\* divisor: the call gcd(num, den) of the caption always comes back.
Divides(q, n) == n % q = 0
IsGcd(x, a, b) ==
    IF a = 0 THEN x = b
    ELSE /\ x \in 1..b
         /\ Divides(x, a) /\ Divides(x, b)
         /\ \A q \in 1..b : (Divides(q, a) /\ Divides(q, b)) => q <= x
GcdCalled == pc = "gcd" \/ Past("gcd")
C11_GcdReturns ==
    (GcdCalled /\ num >= 0) =>
        /\ exit_status # 139
        /\ Past("gcd") => IsGcd(g, num, den)

====
